---- MODULE Spec2Model ----
(***************************************************************************)
(* Process supervisor and health-gated startup of the desktop shell:       *)
(* SidecarManager (sidecar.rs), poll_health (health.rs) and the boot,      *)
(* restart_backend and window-close flows of lib.rs.                       *)
(*                                                                         *)
(* Spec      the flows of lib.rs running concurrently over one AppState,   *)
(*           with the reader threads of the children writing the log file. *)
(*           A flow sees of a clock only the comparison the code makes     *)
(*           (start.elapsed() > deadline), so the clocks are kept there    *)
(*           as the outcome of that comparison.                            *)
(* SpecQuiet the same with children that print nothing.                    *)
(* SpecLive  SpecQuiet with the fairness the scheduling gives.             *)
(* SpecOne   Spec with a single restart_backend invocation.                *)
(* SpecBoot  the boot flow and the window-close handler, with the reader   *)
(*           threads of the child writing the log file.                    *)
(* SpecPoll  poll_health alone, with its clock in milliseconds.            *)
(* SpecRead  read_last_log_lines called on a log file, with the write      *)
(*           calls of the reader threads between the calls.                *)
(* SpecMgr   one SidecarManager driven through spawn, spawn_with_retry,    *)
(*           is_running and shutdown by its owner, then dropped.           *)
(***************************************************************************)
EXTENDS Integers, Sequences, FiniteSets, TLC

\* ---------------------------------------------------------------- bounds
\* number of restart_backend invocations (they may run concurrently)
NumRestarts == 2
\* number of lines the reader threads append to the log during one run
MaxAppend == 1
\* SpecRead: bytes in the log file at the start, largest n asked for, lines
\* the reader threads begin, and number of calls remembered
MaxFileLen == 2
MaxReadN == 2
MaxWritten == 2
CallsKept == 2

\* ------------------------------------------------------ program constants
max_retries == 3
LogTail == 20
HealthIntervalMs == 250
HealthTimeoutMs == 15000
ProbeTimeoutMs == 3000

\* ------------------------------------------------------------------ flows
BootFlow == 0
Restarts == 1..NumRestarts
CloseFlow == NumRestarts + 1
\* the owner of a SidecarManager calling its methods directly (SpecMgr)
OwnerFlow == NumRestarts + 2
Flows == BootFlow..OwnerFlow
NoFlow == -1

\* Option<Child>: None, or the generation number of the child
NoChild == 0
MaxChildren == NumRestarts + 1
Children == 1..MaxChildren

\* what spawn() can fail with: format!("Failed to spawn node process: {}", e),
\* e an io::Error (two of them here)
SpawnErrors == {"Failed to spawn node process: No such file or directory (os error 2)",
                "Failed to spawn node process: Permission denied (os error 13)"}

\* lengths of the log file left behind by earlier runs of the application
InitLogLens == {0, LogTail, LogTail + 1}

VARIABLES
    dev,          \* is_dev(): cfg!(debug_assertions)
    appSidecar,   \* AppState.sidecar is Some(manager)
    dropped,      \* drop of the SidecarManager: "no", "dropping", "dropped"
    appLock,      \* flow holding the AppState.sidecar mutex, or NoFlow
    childLock,    \* flow holding the SidecarManager.child mutex, or NoFlow
    slot,         \* content of SidecarManager.child
    child,        \* per generation: "unborn", "running", "killed", "zombie", "reaped"
    takes,        \* per generation: number of shutdown invocations that took it
    spawner,      \* per generation: the flow whose spawn() created it
    log,          \* content of the log file: the chunks written to it, in order
    appended,     \* lines the reader threads have begun to write in this run
    writing,      \* per child and stream: what is left to write of the current line
    bootRead,     \* boot flow: the lines it read for the diagnostic, and from what
    windowAlive,  \* the main window has not been destroyed
    view,         \* what the main window displays: "initial", "diagnostic", "backend"
    pc,           \* position of each flow
    attempts,     \* spawn_with_retry: local attempts
    tries,        \* spawn_with_retry: outcome of each spawn() call so far, in order
    delays,       \* spawn_with_retry: the backoff sleeps requested so far, in seconds
    swr,          \* value spawn_with_retry has just returned
    sdChild,      \* shutdown: local child, taken out of the slot
    sdLate,       \* shutdown: start.elapsed() > 5 s
    sdRet,        \* what the shutdown that has just returned leaves behind
    pollRes,      \* value poll_health has just returned
    result,       \* per flow: value returned by the flow
    steps,        \* per flow: the calls it made and what they returned, in order
    ui,           \* per flow: operations performed on the main window, in order
    diag,         \* arguments of each show_error call, in order
    phPc, phInterval, phTimeout, phElapsed, phProbeStart, phStatus, phSleepArg,
    phResult,     \* poll_health under SpecPoll
    rlFile,       \* SpecRead: the log file
    rlOpen,       \* SpecRead: per stream, whether its reader thread has opened the file
    rlWriting,    \* SpecRead: per stream, what is left to write of the current line
    rlBegun,      \* SpecRead: number of lines the reader threads have begun to write
    rlCalls       \* SpecRead: the last reads, opens and writes made, in order

sysVars == <<dev, appSidecar, dropped, appLock, childLock, slot, child, takes,
             spawner, log, appended, writing, bootRead, windowAlive, view, pc,
             attempts, tries, delays, swr, sdChild, sdLate, sdRet, pollRes,
             result, steps, ui, diag>>
phVars == <<phPc, phInterval, phTimeout, phElapsed, phProbeStart, phStatus,
            phSleepArg, phResult>>
rlVars == <<rlFile, rlOpen, rlWriting, rlBegun, rlCalls>>
\* the variables of SpecPoll and SpecRead, which the flows leave alone
pureVars == <<phVars, rlVars>>
vars == <<sysVars, pureVars>>

\* the groups of variables the actions leave alone
appVars == <<dev, appSidecar, dropped>>
lockVars == <<appLock, childLock>>
childVars == <<slot, child, takes, spawner>>
logVars == <<log, appended, writing>>
uiVars == <<windowAlive, view, ui, diag, bootRead>>
swrVars == <<attempts, tries, delays, swr>>
sdVars == <<sdChild, sdLate, sdRet>>
pollVars == <<pollRes>>
outVars == <<result, steps>>

\* ------------------------------------------------------- values returned
NoRet == [kind |-> "none", tag |-> "", n |-> 0, cause |-> ""]
OkRet(tag) == [kind |-> "ok", tag |-> tag, n |-> 0, cause |-> ""]
ErrRet(tag, n, cause) == [kind |-> "err", tag |-> tag, n |-> n, cause |-> cause]

\* format!("Backend failed to start after {} attempts: {}", self.max_retries, e)
RetryError(n, e) == ErrRet("Backend failed to start after {} attempts: {}", n, e)
\* format!("Backend health check timed out after {}ms", timeout_ms)
TimeoutError(ms) == ErrRet("Backend health check timed out after {}ms", ms, "")
\* format!("Failed to create HTTP client: {}", e)
ClientError == ErrRet("Failed to create HTTP client: {}", 0, "builder error")
NoManagerError == ErrRet("No sidecar manager available", 0, "")
RestartedOk == OkRet("Backend restarted")

\* one entry of steps: a call with its arguments, or what a call returned
Step(op, args) == [op |-> op, args |-> args]
Did(f, ops) == [steps EXCEPT ![f] = @ \o ops]
\* health::poll_health(HEALTH_URL, 250, 15000)
PollCall == Step("poll_health", <<HealthIntervalMs, HealthTimeoutMs>>)
\* the ? operator: the value is Ok and the function goes on
TryGoesOnAlways(r) == TRUE
TryGoesOn(r) == r.kind = "ok"

\* ------------------------------------------------------------- helpers
RECURSIVE Pow2(_)
Pow2(k) == IF k = 0 THEN 1 ELSE 2 * Pow2(k - 1)

RECURSIVE Rev(_)
Rev(s) == IF s = <<>> THEN <<>> ELSE Append(Rev(Tail(s)), Head(s))

Min(a, b) == IF a < b THEN a ELSE b

Live(g) == child[g] \in {"running", "killed"}
LiveChildren == {g \in Children : Live(g)}

\* Iterator::take(n)
Take(s, n) == SubSeq(s, 1, IF n < Len(s) THEN n ELSE Len(s))

\* The content of the log file is a sequence of chunks of bytes: "\n", "\r",
\* runs of other whole characters such as "pr", and the two bytes "0xC3",
\* "0xAA" of the one character U+00EA.
LeadBytes == {"0xC3"}
ContBytes == {"0xAA"}
\* String::from_utf8 on what was read: every lead byte is followed by its
\* continuation byte, and no continuation byte stands alone
ValidUtf8(bytes) ==
    \A i \in 1..Len(bytes) :
        /\ bytes[i] \in LeadBytes => i < Len(bytes) /\ bytes[i + 1] \in ContBytes
        /\ bytes[i] \in ContBytes => i > 1 /\ bytes[i - 1] \in LeadBytes
\* fs::read_to_string(..).unwrap_or_default(): the empty string when the file
\* is missing (no bytes) and when its bytes are not UTF-8 (Err(InvalidData))
ReadToString(bytes) == IF ValidUtf8(bytes) THEN bytes ELSE <<>>

\* a line that ended at a line feed loses one carriage return standing right
\* before it (CR LF)
StripCr(line) ==
    IF line # <<>> /\ line[Len(line)] = "\r"
    THEN SubSeq(line, 1, Len(line) - 1) ELSE line
\* str::lines(): the text between the line feeds, without the carriage
\* return of a CR LF; what follows the last line feed is a line when it is
\* not empty, and keeps a carriage return at its end (a line is the chunks
\* it is made of)
RECURSIVE SplitLines(_, _, _)
SplitLines(text, cur, acc) ==
    IF text = <<>> THEN (IF cur = <<>> THEN acc ELSE Append(acc, cur))
    ELSE IF Head(text) = "\n"
         THEN SplitLines(Tail(text), <<>>, Append(acc, StripCr(cur)))
    ELSE SplitLines(Tail(text), Append(cur, Head(text)), acc)
Lines(text) == SplitLines(text, <<>>, <<>>)

\* the one element of a set
The(S) == CHOOSE x \in S : TRUE
\* read_to_string(..).unwrap_or_default()
\*     .lines().rev().take(n).collect().into_iter().rev().collect()
\* (one set for each stage, so that the value of a stage is computed once)
read_last_log_lines(bytes, n) ==
    The({Rev(taken) :
           taken \in {Take(newest, n) :
             newest \in {Rev(lines) :
               lines \in {Lines(text) :
                 text \in {ReadToString(b) : b \in {bytes}}}}}})

\* 1 << (attempts - 1), in seconds (a u64; attempts < max_retries here, so
\* the shift never reaches the width)
BackoffFromTwo(att) == Pow2(att)
Backoff(att) == Pow2(att - 1)

\* attempts >= self.max_retries
RetryExhaustedLate(att) == att > max_retries
RetryExhausted(att) == att >= max_retries

\* ------------------------------------------------------------ log file
\* writeln!(f, "{}", line) and writeln!(f, "[stderr] {}", line): write_fmt
\* makes one write_all for each literal piece and for the line; a piece is
\* the chunks of bytes a write call can stop between
LogLine(stream, line) ==
    (IF stream = "stderr" THEN << <<"[st", "derr] ">> >> ELSE <<>>)
        \o <<line, <<"\n">> >>
\* what the child prints on each stream, as BufRead::lines() yields it (the
\* line without its "\n" or "\r\n"): "warn\r", and "pr\u00EAt"
ChildPrints(stream) ==
    IF stream = "stderr" THEN <<"warn", "\r">> ELSE <<"pr", "0xC3", "0xAA", "t">>
\* write_all after a write call returned Ok(k), 0 < k: the bytes left of the
\* piece are written next, then the pieces after it
AfterWrite(pieces, k) ==
    IF k = Len(Head(pieces)) THEN Tail(pieces)
    ELSE <<SubSeq(Head(pieces), k + 1, Len(Head(pieces)))>> \o Tail(pieces)
Streams == {"stdout", "stderr"}
\* the file left by earlier runs: n whole lines "1" .. "n"
InitLog(n) == [i \in 1..(2 * n) |-> IF i % 2 = 1 THEN ToString((i + 1) \div 2) ELSE "\n"]
DevLines == << <<"Dev mode: backend not responding.">>,
               <<"Start it with: npm run dev:backend">> >>
NothingRead == [lines |-> <<>>, from |-> <<>>]

\* ------------------------------------------------------------ Init
SetupDone == pc[BootFlow] \notin {"b_setup", "sp_try", "sp_sleep", "sp_ret"}

RlIdle ==
    /\ rlFile = [exists |-> FALSE, text |-> <<>>]
    /\ rlOpen = [st \in Streams |-> "no"]
    /\ rlWriting = [st \in Streams |-> <<>>]
    /\ rlBegun = 0
    /\ rlCalls = <<>>

PhIdle ==
    /\ phPc = "off" /\ phInterval = 0 /\ phTimeout = 0 /\ phElapsed = 0
    /\ phProbeStart = 0 /\ phStatus = "none" /\ phSleepArg = 0 /\ phResult = NoRet

InitWith(logs) ==
    /\ dev \in BOOLEAN
    /\ appSidecar = FALSE
    /\ dropped = "no"
    /\ appLock = NoFlow
    /\ childLock = NoFlow
    /\ slot = NoChild
    /\ child = [g \in Children |-> "unborn"]
    /\ takes = [g \in Children |-> 0]
    /\ spawner = [g \in Children |-> NoFlow]
    /\ log \in logs
    /\ appended = 0
    /\ writing = [g \in Children |-> [st \in Streams |-> <<>>]]
    /\ bootRead = NothingRead
    /\ windowAlive = TRUE
    /\ view = "initial"
    /\ pc = [f \in Flows |-> IF f = BootFlow THEN "b_setup" ELSE "idle"]
    /\ attempts = [f \in Flows |-> 0]
    /\ tries = [f \in Flows |-> <<>>]
    /\ delays = [f \in Flows |-> <<>>]
    /\ swr = [f \in Flows |-> NoRet]
    /\ sdChild = [f \in Flows |-> NoChild]
    /\ sdLate = [f \in Flows |-> FALSE]
    /\ sdRet = [f \in Flows |-> <<>>]
    /\ pollRes = [f \in Flows |-> NoRet]
    /\ result = [f \in Flows |-> NoRet]
    /\ steps = [f \in Flows |-> <<>>]
    /\ ui = [f \in Flows |-> <<>>]
    /\ diag = <<>>

Init == InitWith({InitLog(LogTail)}) /\ PhIdle /\ RlIdle
InitBoot == InitWith({InitLog(n) : n \in InitLogLens}) /\ PhIdle /\ RlIdle

\* ------------------------------------------------- SidecarManager::spawn
\* Command::spawn succeeded: the new Child replaces whatever the slot held
\* (line 68), under the child mutex taken for that one assignment.
StoreChild(f) ==
    /\ childLock = NoFlow
    /\ \E g \in Children :
        /\ child[g] = "unborn"
        /\ \A h \in Children : h < g => child[h] # "unborn"
        /\ child' = [child EXCEPT ![g] = "running"]
        /\ slot' = g
        /\ spawner' = [spawner EXCEPT ![g] = f]
    /\ UNCHANGED takes

\* spawn() returns Ok(()) to spawn_with_retry
SpawnOk(f) ==
    /\ StoreChild(f)
    /\ tries' = [tries EXCEPT ![f] = Append(@, "ok")]

\* --------------------------------------- SidecarManager::spawn_with_retry
\* one turn of the loop: spawn(), then return or request the backoff sleep
SpawnTry(f) ==
    /\ pc[f] = "sp_try"
    /\ \/ /\ SpawnOk(f)
          /\ swr' = [swr EXCEPT ![f] = OkRet("")]
          /\ pc' = [pc EXCEPT ![f] = "sp_ret"]
          /\ UNCHANGED <<attempts, delays>>
       \/ \E e \in SpawnErrors :
          /\ tries' = [tries EXCEPT ![f] = Append(@, e)]
          /\ attempts' = [attempts EXCEPT ![f] = @ + 1]
          /\ IF RetryExhausted(attempts'[f])
             THEN /\ swr' = [swr EXCEPT ![f] = RetryError(max_retries, e)]
                  /\ pc' = [pc EXCEPT ![f] = "sp_ret"]
                  /\ UNCHANGED delays
             ELSE /\ delays' = [delays EXCEPT ![f] = Append(@, Backoff(attempts'[f]))]
                  /\ pc' = [pc EXCEPT ![f] = "sp_sleep"]
                  /\ UNCHANGED swr
          /\ UNCHANGED childVars
    /\ UNCHANGED <<appVars, lockVars, logVars, uiVars, sdVars, pollVars, outVars,
                   pureVars>>

\* thread::sleep(delay) is over
SpawnSleep(f) ==
    /\ pc[f] = "sp_sleep"
    /\ pc' = [pc EXCEPT ![f] = "sp_try"]
    /\ UNCHANGED <<appVars, lockVars, childVars, logVars, uiVars, swrVars, sdVars,
                   pollVars, outVars, pureVars>>

\* the caller has taken the value returned: the locals are gone
SwrConsumed(f) ==
    /\ attempts' = [attempts EXCEPT ![f] = 0]
    /\ tries' = [tries EXCEPT ![f] = <<>>]
    /\ delays' = [delays EXCEPT ![f] = <<>>]
    /\ swr' = [swr EXCEPT ![f] = NoRet]

\* ---------------------------------------------- SidecarManager::shutdown
\* shutdown returns (sdRet keeps what it leaves behind, for the properties)
ShutdownReturns(f, g, ch) ==
    /\ sdRet' = [sdRet EXCEPT ![f] = <<[child |-> g,
                     state |-> IF g = NoChild THEN "none" ELSE ch[g],
                     slot |-> slot']>>]
    /\ pc' = [pc EXCEPT ![f] = "sd_ret"]

\* child.kill()
Kill(ch, g) == IF ch[g] = "running" THEN [ch EXCEPT ![g] = "killed"] ELSE ch

\* lock, guard.take(), child.kill(), Instant::now()
ShutdownTake(f) ==
    /\ pc[f] = "sd_lock"
    /\ childLock = NoFlow
    /\ IF slot = NoChild
       THEN /\ UNCHANGED <<childLock, childVars, sdChild, sdLate>>
            /\ ShutdownReturns(f, NoChild, child)
       ELSE /\ childLock' = f
            /\ sdChild' = [sdChild EXCEPT ![f] = slot]
            /\ slot' = NoChild
            /\ takes' = [takes EXCEPT ![slot] = @ + 1]
            /\ child' = Kill(child, slot)
            /\ UNCHANGED spawner
            /\ sdLate' = [sdLate EXCEPT ![f] = FALSE]
            /\ pc' = [pc EXCEPT ![f] = "sd_poll"]
            /\ UNCHANGED sdRet
    /\ UNCHANGED <<appVars, appLock, logVars, uiVars, swrVars, pollVars, outVars, pureVars>>

\* match child.try_wait()
ShutdownTryWait(f) ==
    /\ pc[f] = "sd_poll"
    /\ LET g == sdChild[f] IN
       \/ \* Ok(Some(_)): the child has exited and is reaped
          /\ child[g] = "zombie"
          /\ child' = [child EXCEPT ![g] = "reaped"]
          /\ childLock' = NoFlow
          /\ UNCHANGED slot
          /\ ShutdownReturns(f, g, child')
       \/ \* Ok(None): still running; force kill past the deadline, else sleep
          /\ Live(g)
          /\ IF sdLate[f]
             THEN /\ child' = Kill(child, g)
                  /\ pc' = [pc EXCEPT ![f] = "sd_wait"]
             ELSE /\ pc' = [pc EXCEPT ![f] = "sd_sleep"]
                  /\ UNCHANGED child
          /\ UNCHANGED <<childLock, slot, sdRet>>
       \/ \* Err(_) => return
          /\ childLock' = NoFlow
          /\ UNCHANGED <<child, slot>>
          /\ ShutdownReturns(f, g, child)
    /\ UNCHANGED <<appVars, appLock, takes, spawner, logVars, uiVars, swrVars, sdChild,
                   sdLate, pollVars, outVars, pureVars>>

\* thread::sleep(Duration::from_millis(100)) is over; 5 s may have passed
ShutdownSleep(f) ==
    /\ pc[f] = "sd_sleep"
    /\ \E over \in BOOLEAN : sdLate' = [sdLate EXCEPT ![f] = over]
    /\ pc' = [pc EXCEPT ![f] = "sd_poll"]
    /\ UNCHANGED <<appVars, lockVars, childVars, logVars, uiVars, swrVars, sdChild,
                   sdRet, pollVars, outVars, pureVars>>

\* child.wait() returns once the child has exited
ShutdownWait(f) ==
    /\ pc[f] = "sd_wait"
    /\ child[sdChild[f]] = "zombie"
    /\ child' = [child EXCEPT ![sdChild[f]] = "reaped"]
    /\ childLock' = NoFlow
    /\ UNCHANGED slot
    /\ ShutdownReturns(f, sdChild[f], child')
    /\ UNCHANGED <<appVars, appLock, takes, spawner, logVars, uiVars, swrVars, sdChild,
                   sdLate, pollVars, outVars, pureVars>>

\* the caller goes on: the locals are gone
ShutdownConsumed(f) ==
    /\ sdChild' = [sdChild EXCEPT ![f] = NoChild]
    /\ sdLate' = [sdLate EXCEPT ![f] = FALSE]
    /\ sdRet' = [sdRet EXCEPT ![f] = <<>>]

\* ----------------------------------------- poll_health, seen from a flow
\* the call: the client is built (an Err is returned at once); then the first
\* pass of the loop, where start.elapsed() is still short, sends the request
HealthEnter(f) ==
    /\ pc[f] = "poll"
    /\ \/ /\ pollRes' = [pollRes EXCEPT ![f] = ClientError]
          /\ pc' = [pc EXCEPT ![f] = "poll_ret"]
       \/ /\ pc' = [pc EXCEPT ![f] = "probe"]
          /\ UNCHANGED pollRes
    /\ UNCHANGED <<appVars, lockVars, childVars, logVars, uiVars, swrVars, sdVars,
                   outVars, pureVars>>

\* client.get(url).send().await completes: Ok(()) on a 2xx status, else the
\* sleep is requested
HealthProbe(f) ==
    /\ pc[f] = "probe"
    /\ \E status \in {"2xx", "other", "error"} :
        IF status = "2xx"
        THEN /\ pollRes' = [pollRes EXCEPT ![f] = OkRet("")]
             /\ pc' = [pc EXCEPT ![f] = "poll_ret"]
        ELSE /\ pc' = [pc EXCEPT ![f] = "sleep"]
             /\ UNCHANGED pollRes
    /\ UNCHANGED <<appVars, lockVars, childVars, logVars, uiVars, swrVars, sdVars,
                   outVars, pureVars>>

\* tokio::time::sleep(interval).await is over: the next pass of the loop
\* returns the timeout error when start.elapsed() > timeout, or sends the
\* next request
HealthSleep(f) ==
    /\ pc[f] = "sleep"
    /\ \E over \in BOOLEAN :
        IF over
        THEN /\ pollRes' = [pollRes EXCEPT ![f] = TimeoutError(HealthTimeoutMs)]
             /\ pc' = [pc EXCEPT ![f] = "poll_ret"]
        ELSE /\ pc' = [pc EXCEPT ![f] = "probe"]
             /\ UNCHANGED pollRes
    /\ UNCHANGED <<appVars, lockVars, childVars, logVars, uiVars, swrVars, sdVars,
                   outVars, pureVars>>

\* the caller has taken the value returned
PollConsumed(f) ==
    /\ pollRes' = [pollRes EXCEPT ![f] = NoRet]

\* ------------------------------------------------------------ show_error
\* eval of the generated page and show(), when the main window exists
show_error(f, message, log_lines) ==
    IF windowAlive
    THEN /\ diag' = Append(diag, [by |-> f, message |-> message,
                                  log_lines |-> log_lines])
         /\ ui' = [ui EXCEPT ![f] = @ \o <<"eval", "show">>]
         /\ view' = "diagnostic"
    ELSE UNCHANGED <<diag, ui, view>>

\* ------------------------------------------------------------ run: setup
\* let spawn_sidecar = !is_dev()
SpawnSidecarAlways == TRUE
spawn_sidecar == ~dev

\* the spawn-failed arm ends setup (return Ok(())): no health check task
SpawnFailedStartsPoll == "poll"
SpawnFailedNext == "done"

\* *state.sidecar.lock().unwrap() = Some(manager)
ManagerNotStored == FALSE
ManagerStored == TRUE

BootSetup ==
    /\ pc[BootFlow] = "b_setup"
    /\ IF spawn_sidecar
       THEN /\ pc' = [pc EXCEPT ![BootFlow] = "sp_try"]
            /\ steps' = Did(BootFlow, <<Step("spawn_with_retry", <<>>)>>)
       ELSE /\ pc' = [pc EXCEPT ![BootFlow] = "poll"]
            /\ steps' = Did(BootFlow, <<PollCall>>)
    /\ UNCHANGED <<appVars, lockVars, childVars, logVars, uiVars, swrVars, sdVars,
                   pollVars, result, pureVars>>

\* match manager.spawn_with_retry(): both arms store the manager in AppState
BootAfterSpawn ==
    /\ pc[BootFlow] = "sp_ret"
    /\ appLock = NoFlow
    /\ appSidecar' = ManagerStored
    /\ SwrConsumed(BootFlow)
    /\ IF swr[BootFlow].kind = "ok"
       THEN /\ pc' = [pc EXCEPT ![BootFlow] = "poll"]
            /\ steps' = Did(BootFlow, <<Step("spawn_with_retry Ok", <<>>), PollCall>>)
            /\ UNCHANGED <<result, ui, diag, view, bootRead>>
       ELSE /\ bootRead' = [lines |-> read_last_log_lines(log, LogTail), from |-> log]
            /\ show_error(BootFlow, swr[BootFlow], bootRead'.lines)
            /\ steps' = Did(BootFlow,
                    <<Step("spawn_with_retry Err", <<>>),
                      Step("read_last_log_lines", <<LogTail>>),
                      Step("show_error", <<>>)>>
                    \o (IF SpawnFailedNext = "poll" THEN <<PollCall>> ELSE <<>>))
            /\ result' = [result EXCEPT ![BootFlow] = swr[BootFlow]]
            /\ pc' = [pc EXCEPT ![BootFlow] = SpawnFailedNext]
    /\ UNCHANGED <<dev, dropped, lockVars, childVars, logVars, windowAlive, sdVars,
                   pollVars, pureVars>>

\* a MutexGuard goes out of scope: the mutex is unlocked
GuardKept(f) == f
GuardDropped(f) == NoFlow

\* ------------------------------------------------- run: health check task
\* Ok(()): navigate (production only), show, set_focus
BootHealthOk ==
    /\ pc[BootFlow] = "poll_ret"
    /\ pollRes[BootFlow].kind = "ok"
    /\ PollConsumed(BootFlow)
    /\ IF windowAlive
       THEN /\ ui' = [ui EXCEPT ![BootFlow] =
                         @ \o (IF ~dev THEN <<"navigate">> ELSE <<>>)
                           \o <<"show", "set_focus">>]
            /\ view' = IF ~dev THEN "backend" ELSE view
       ELSE UNCHANGED <<ui, view>>
    /\ steps' = Did(BootFlow, <<Step("poll_health Ok", <<>>)>>)
    /\ result' = [result EXCEPT ![BootFlow] = OkRet("")]
    /\ pc' = [pc EXCEPT ![BootFlow] = "done"]
    /\ UNCHANGED <<appVars, lockVars, childVars, logVars, windowAlive, diag, bootRead,
                   swrVars, sdVars, pureVars>>

\* Err(e): in production state.sidecar is locked; in development the two
\* fixed lines are taken
BootHealthErr ==
    /\ pc[BootFlow] = "poll_ret"
    /\ pollRes[BootFlow].kind = "err"
    /\ IF ~dev
       THEN /\ appLock = NoFlow
            /\ appLock' = BootFlow
            /\ pc' = [pc EXCEPT ![BootFlow] = "b_read"]
            /\ UNCHANGED bootRead
       ELSE /\ bootRead' = [lines |-> DevLines, from |-> <<>>]
            /\ pc' = [pc EXCEPT ![BootFlow] = "b_show"]
            /\ UNCHANGED appLock
    /\ steps' = Did(BootFlow, <<Step("poll_health Err", <<>>)>>)
    /\ UNCHANGED <<appVars, childLock, childVars, logVars, windowAlive, view, ui, diag,
                   swrVars, sdVars, pollVars, result, pureVars>>

\* guard.as_ref().map(|s| s.read_last_log_lines(20)).unwrap_or_default();
\* the guard is dropped at the end of the block
BootReadLog ==
    /\ pc[BootFlow] = "b_read"
    /\ bootRead' = IF appSidecar
                   THEN [lines |-> read_last_log_lines(log, LogTail), from |-> log]
                   ELSE NothingRead
    /\ appLock' = GuardDropped(BootFlow)
    /\ steps' = Did(BootFlow, IF appSidecar
                              THEN <<Step("read_last_log_lines", <<LogTail>>)>>
                              ELSE <<>>)
    /\ pc' = [pc EXCEPT ![BootFlow] = "b_show"]
    /\ UNCHANGED <<appVars, childLock, childVars, logVars, windowAlive, view, ui, diag,
                   swrVars, sdVars, pollVars, result, pureVars>>

\* show_error(&app_handle, &e, &log_lines)
BootShowError ==
    /\ pc[BootFlow] = "b_show"
    /\ show_error(BootFlow, pollRes[BootFlow], bootRead.lines)
    /\ PollConsumed(BootFlow)
    /\ steps' = Did(BootFlow, <<Step("show_error", <<>>)>>)
    /\ result' = [result EXCEPT ![BootFlow] = pollRes[BootFlow]]
    /\ pc' = [pc EXCEPT ![BootFlow] = "done"]
    /\ UNCHANGED <<appVars, lockVars, childVars, logVars, windowAlive, bootRead,
                   swrVars, sdVars, pureVars>>

\* -------------------------------------------------------- restart_backend
\* the Retry control of the diagnostic page invokes the command (the
\* invocations are numbered in their order of arrival)
RestartInvoke(f) ==
    /\ pc[f] = "idle"
    /\ \A h \in Restarts : h < f => pc[h] # "idle"
    /\ SetupDone
    /\ windowAlive
    /\ view = "diagnostic"
    /\ pc' = [pc EXCEPT ![f] = "r_lock1"]
    /\ UNCHANGED <<appVars, lockVars, childVars, logVars, uiVars, swrVars, sdVars,
                   pollVars, outVars, pureVars>>

\* first block: lock; if let Some(ref sidecar) = *guard { sidecar.shutdown() }
RestartLock1(f) ==
    /\ pc[f] = "r_lock1"
    /\ appLock = NoFlow
    /\ IF appSidecar
       THEN /\ appLock' = f
            /\ pc' = [pc EXCEPT ![f] = "sd_lock"]
            /\ steps' = Did(f, <<Step("shutdown", <<>>)>>)
       ELSE /\ pc' = [pc EXCEPT ![f] = "r_lock2"]
            /\ UNCHANGED <<appLock, steps>>
    /\ UNCHANGED <<appVars, childLock, childVars, logVars, uiVars, swrVars, sdVars,
                   pollVars, result, pureVars>>

\* shutdown() returned: the guard of the first block is dropped
RestartAfterShutdown(f) ==
    /\ pc[f] = "sd_ret"
    /\ appLock' = GuardDropped(f)
    /\ ShutdownConsumed(f)
    /\ steps' = Did(f, <<Step("shutdown returned", <<>>)>>)
    /\ pc' = [pc EXCEPT ![f] = "r_lock2"]
    /\ UNCHANGED <<appVars, childLock, childVars, logVars, uiVars, swrVars,
                   pollVars, result, pureVars>>

\* if let Some(ref sidecar) = *guard
RestartSpawnGuardTracked == appSidecar /\ slot # NoChild
RestartSpawnGuard == appSidecar

\* second block: lock; spawn_with_retry()? or Err("No sidecar manager available")
RestartLock2(f) ==
    /\ pc[f] = "r_lock2"
    /\ appLock = NoFlow
    /\ IF RestartSpawnGuard
       THEN /\ appLock' = f
            /\ pc' = [pc EXCEPT ![f] = "sp_try"]
            /\ steps' = Did(f, <<Step("spawn_with_retry", <<>>)>>)
            /\ UNCHANGED result
       ELSE /\ result' = [result EXCEPT ![f] = NoManagerError]
            /\ steps' = Did(f, <<Step("return Err", <<>>)>>)
            /\ pc' = [pc EXCEPT ![f] = "done"]
            /\ UNCHANGED appLock
    /\ UNCHANGED <<appVars, childLock, childVars, logVars, uiVars, swrVars, sdVars,
                   pollVars, pureVars>>

\* spawn_with_retry()? : the guard is dropped on both outcomes
RestartAfterSpawn(f) ==
    /\ pc[f] = "sp_ret"
    /\ appLock' = GuardDropped(f)
    /\ SwrConsumed(f)
    /\ IF TryGoesOn(swr[f])
       THEN /\ pc' = [pc EXCEPT ![f] = "poll"]
            /\ steps' = Did(f, <<Step(IF swr[f].kind = "ok" THEN "spawn_with_retry Ok"
                                       ELSE "spawn_with_retry Err", <<>>),
                                  PollCall>>)
            /\ UNCHANGED result
       ELSE /\ result' = [result EXCEPT ![f] = swr[f]]
            /\ steps' = Did(f, <<Step("spawn_with_retry Err", <<>>),
                                  Step("return Err", <<>>)>>)
            /\ pc' = [pc EXCEPT ![f] = "done"]
    /\ UNCHANGED <<appVars, childLock, childVars, logVars, uiVars, sdVars,
                   pollVars, pureVars>>

\* poll_health(..).await? ; navigate ; Ok("Backend restarted")
RestartAfterPoll(f) ==
    /\ pc[f] = "poll_ret"
    /\ PollConsumed(f)
    /\ LET returned == Step(IF pollRes[f].kind = "ok" THEN "poll_health Ok"
                            ELSE "poll_health Err", <<>>)
       IN IF TryGoesOn(pollRes[f])
          THEN /\ IF windowAlive
                  THEN /\ ui' = [ui EXCEPT ![f] = @ \o <<"navigate">>]
                       /\ view' = "backend"
                       /\ steps' = Did(f, <<returned, Step("navigate", <<>>),
                                             Step("return Ok", <<>>)>>)
                  ELSE /\ UNCHANGED <<ui, view>>
                       /\ steps' = Did(f, <<returned, Step("return Ok", <<>>)>>)
               /\ result' = [result EXCEPT ![f] = RestartedOk]
          ELSE /\ result' = [result EXCEPT ![f] = pollRes[f]]
               /\ steps' = Did(f, <<returned, Step("return Err", <<>>)>>)
               /\ UNCHANGED <<ui, view>>
    /\ pc' = [pc EXCEPT ![f] = "done"]
    /\ UNCHANGED <<appVars, lockVars, childVars, logVars, windowAlive, diag, bootRead,
                   swrVars, sdVars, pureVars>>

\* ------------------------------------------------------- on_window_event
\* WindowEvent::Destroyed is delivered
WindowDestroyed ==
    /\ pc[CloseFlow] = "idle"
    /\ SetupDone
    /\ windowAlive
    /\ windowAlive' = FALSE
    /\ pc' = [pc EXCEPT ![CloseFlow] = "c_lock"]
    /\ UNCHANGED <<appVars, lockVars, childVars, logVars, view, ui, diag, bootRead,
                   swrVars, sdVars, pollVars, outVars, pureVars>>

\* lock; if let Some(ref sidecar) = *guard { sidecar.shutdown() }
CloseLock ==
    /\ pc[CloseFlow] = "c_lock"
    /\ appLock = NoFlow
    /\ IF appSidecar
       THEN /\ appLock' = CloseFlow
            /\ pc' = [pc EXCEPT ![CloseFlow] = "sd_lock"]
            /\ steps' = Did(CloseFlow, <<Step("shutdown", <<>>)>>)
       ELSE /\ pc' = [pc EXCEPT ![CloseFlow] = "done"]
            /\ UNCHANGED <<appLock, steps>>
    /\ UNCHANGED <<appVars, childLock, childVars, logVars, uiVars, swrVars, sdVars,
                   pollVars, result, pureVars>>

\* shutdown() returned: the guard is dropped at the end of the handler
CloseAfterShutdown ==
    /\ pc[CloseFlow] = "sd_ret"
    /\ appLock' = GuardDropped(CloseFlow)
    /\ ShutdownConsumed(CloseFlow)
    /\ steps' = Did(CloseFlow, <<Step("shutdown returned", <<>>)>>)
    /\ pc' = [pc EXCEPT ![CloseFlow] = "done"]
    /\ UNCHANGED <<appVars, childLock, childVars, logVars, uiVars, swrVars,
                   pollVars, result, pureVars>>

\* ------------------------------------------------------------ environment
\* the helper process exits: by itself, or after the kill signal
ChildExit(g) ==
    /\ Live(g)
    /\ child' = [child EXCEPT ![g] = "zombie"]
    /\ UNCHANGED <<appVars, lockVars, slot, takes, spawner, logVars, uiVars, pc, swrVars,
                   sdVars, pollVars, outVars, pureVars>>

\* (the file the thread opens, and creates when missing, is tracked by its
\* bytes alone here: a missing file and an empty one read the same)
\* a reader thread of child g makes one write call of its writeln!, for a
\* line the child printed or for the line it is writing (the pipe is read to
\* its end, also after the child has exited). The call writes k bytes of the
\* piece, all of them or fewer (a short write, after which write_all writes
\* the rest), or it fails (k = 0; Ok(0) is the error WriteZero): write_fmt
\* stops there, let _ = discards the error, and the rest of the line is
\* never written.
LogAppend(g, stream) ==
    /\ child[g] # "unborn"
    /\ LET begun == writing[g][stream] # <<>>
           pieces == IF begun THEN writing[g][stream]
                     ELSE LogLine(stream, ChildPrints(stream))
       IN /\ ~begun => appended < MaxAppend
          /\ appended' = IF begun THEN appended ELSE appended + 1
          /\ \E k \in 0..Len(Head(pieces)) :
                /\ log' = log \o SubSeq(Head(pieces), 1, k)
                /\ writing' = [writing EXCEPT ![g][stream] =
                                  IF k = 0 THEN <<>> ELSE AfterWrite(pieces, k)]
    /\ UNCHANGED <<appVars, lockVars, childVars, uiVars, pc, swrVars, sdVars,
                   pollVars, outVars, pureVars>>

\* ------------------------------------------------------------ Spec
\* the flows and the helper processes
NextFlows ==
    \/ BootSetup
    \/ BootAfterSpawn
    \/ BootHealthOk
    \/ BootHealthErr
    \/ BootReadLog
    \/ BootShowError
    \/ \E f \in {BootFlow} \cup Restarts : SpawnTry(f)
    \/ \E f \in {BootFlow} \cup Restarts : SpawnSleep(f)
    \/ \E f \in {BootFlow} \cup Restarts : HealthEnter(f)
    \/ \E f \in {BootFlow} \cup Restarts : HealthProbe(f)
    \/ \E f \in {BootFlow} \cup Restarts : HealthSleep(f)
    \/ \E f \in Restarts : RestartInvoke(f)
    \/ \E f \in Restarts : RestartLock1(f)
    \/ \E f \in Restarts : RestartAfterShutdown(f)
    \/ \E f \in Restarts : RestartLock2(f)
    \/ \E f \in Restarts : RestartAfterSpawn(f)
    \/ \E f \in Restarts : RestartAfterPoll(f)
    \/ \E f \in Restarts \cup {CloseFlow} : ShutdownTake(f)
    \/ \E f \in Restarts \cup {CloseFlow} : ShutdownTryWait(f)
    \/ \E f \in Restarts \cup {CloseFlow} : ShutdownSleep(f)
    \/ \E f \in Restarts \cup {CloseFlow} : ShutdownWait(f)
    \/ WindowDestroyed
    \/ CloseLock
    \/ CloseAfterShutdown
    \/ \E g \in Children : ChildExit(g)

\* the whole program: the flows, the helper processes and the reader threads
Next ==
    \/ NextFlows
    \/ \E g \in Children, stream \in Streams : LogAppend(g, stream)

Spec == Init /\ [][Next]_vars

\* the program with helper processes that print nothing: the reader threads
\* take no lock and change nothing but the log file
SpecQuiet == Init /\ [][NextFlows]_vars

\* ---------------------------------------------------------------- SpecLive
\* the steps of one flow, once it has been started
FlowStep(f) ==
    \/ f = BootFlow /\ (\/ BootSetup \/ BootAfterSpawn \/ BootHealthOk
                        \/ BootHealthErr \/ BootReadLog \/ BootShowError)
    \/ f \in Restarts /\ (\/ RestartLock1(f) \/ RestartAfterShutdown(f)
                          \/ RestartLock2(f) \/ RestartAfterSpawn(f)
                          \/ RestartAfterPoll(f))
    \/ f = CloseFlow /\ (CloseLock \/ CloseAfterShutdown)
    \/ f \in {BootFlow} \cup Restarts /\
           (\/ SpawnTry(f) \/ SpawnSleep(f)
            \/ HealthEnter(f) \/ HealthProbe(f) \/ HealthSleep(f))
    \/ f \in Restarts \cup {CloseFlow} /\
           (ShutdownTake(f) \/ ShutdownTryWait(f) \/ ShutdownSleep(f) \/ ShutdownWait(f))

\* time passes in poll_health: every pass of the loop takes the interval at
\* least, so that start.elapsed() exceeds the timeout at one of the checks
HealthTimePasses(f) == HealthSleep(f) /\ pc'[f] = "poll_ret"

\* a child that was sent the kill signal exits
KilledExits(g) == child[g] = "killed" /\ ChildExit(g)

\* a started flow takes its next step (threads and tasks are scheduled, sleeps
\* end), the clock advances, and a killed process exits
Fairness ==
    /\ WF_vars(\E f \in {BootFlow, CloseFlow} \cup Restarts : FlowStep(f))
    /\ SF_vars(\E f \in {BootFlow} \cup Restarts : HealthTimePasses(f))
    /\ WF_vars(\E g \in Children : KilledExits(g))

SpecLive == SpecQuiet /\ Fairness

\* the boot flow and the window-close handler, with the reader threads of the
\* child writing the log the boot flow reads
NextBoot ==
    \/ BootSetup
    \/ BootAfterSpawn
    \/ BootHealthOk
    \/ BootHealthErr
    \/ BootReadLog
    \/ BootShowError
    \/ SpawnTry(BootFlow)
    \/ SpawnSleep(BootFlow)
    \/ HealthEnter(BootFlow)
    \/ HealthProbe(BootFlow)
    \/ HealthSleep(BootFlow)
    \/ WindowDestroyed
    \/ CloseLock
    \/ CloseAfterShutdown
    \/ ShutdownTake(CloseFlow)
    \/ ShutdownTryWait(CloseFlow)
    \/ ShutdownSleep(CloseFlow)
    \/ ShutdownWait(CloseFlow)
    \/ \E g \in Children : ChildExit(g)
    \/ \E g \in Children, stream \in Streams : LogAppend(g, stream)

SpecBoot == InitBoot /\ [][NextBoot]_vars

\* boot, one restart_backend invocation and the window-close handler
NextOne ==
    \/ BootSetup
    \/ BootAfterSpawn
    \/ BootHealthOk
    \/ BootHealthErr
    \/ BootReadLog
    \/ BootShowError
    \/ \E f \in {BootFlow, 1} : SpawnTry(f)
    \/ \E f \in {BootFlow, 1} : SpawnSleep(f)
    \/ \E f \in {BootFlow, 1} : HealthEnter(f)
    \/ \E f \in {BootFlow, 1} : HealthProbe(f)
    \/ \E f \in {BootFlow, 1} : HealthSleep(f)
    \/ RestartInvoke(1)
    \/ RestartLock1(1)
    \/ RestartAfterShutdown(1)
    \/ RestartLock2(1)
    \/ RestartAfterSpawn(1)
    \/ RestartAfterPoll(1)
    \/ \E f \in {1, CloseFlow} : ShutdownTake(f)
    \/ \E f \in {1, CloseFlow} : ShutdownTryWait(f)
    \/ \E f \in {1, CloseFlow} : ShutdownSleep(f)
    \/ \E f \in {1, CloseFlow} : ShutdownWait(f)
    \/ WindowDestroyed
    \/ CloseLock
    \/ CloseAfterShutdown
    \/ \E g \in Children : ChildExit(g)
    \/ \E g \in Children, stream \in Streams : LogAppend(g, stream)

SpecOne == Init /\ [][NextOne]_vars

\* ------------------------------------------------------------ poll_health
\* the arguments poll_health is called with, in ms
PollIntervals == {HealthIntervalMs, 1000}
PollTimeouts == {0, 1000, HealthTimeoutMs}
\* how long one probe takes, in ms; the client gives up after ProbeTimeoutMs
ProbeDurations == {0, 100, ProbeTimeoutMs}
\* what the clock has advanced by when start.elapsed() is read, beyond the
\* probes and the sleeps: nothing (a paused clock) or a moment, in ms
CheckDelays == {0, 1}

InitPoll ==
    /\ InitWith({InitLog(0)})
    /\ RlIdle
    /\ ~dev
    /\ phPc = "build"
    /\ phInterval \in PollIntervals
    /\ phTimeout \in PollTimeouts
    /\ phElapsed = 0
    /\ phProbeStart = 0
    /\ phStatus = "none"
    /\ phSleepArg = 0
    /\ phResult = NoRet

\* start.elapsed() > timeout
PollTimedOutAtBudget(elapsed, timeout) == elapsed >= timeout
PollTimedOut(elapsed, timeout) == elapsed > timeout

\* tokio::time::sleep(interval)
PollSleepFor(interval) == interval

\* reqwest::Client::builder()...build(): an Err is returned at once; else
\* start = Instant::now()
PollBuild ==
    /\ phPc = "build"
    /\ \/ /\ phResult' = ClientError
          /\ phPc' = "done"
       \/ /\ phPc' = "check"
          /\ UNCHANGED phResult
    /\ UNCHANGED <<phInterval, phTimeout, phElapsed, phProbeStart, phStatus,
                   phSleepArg, sysVars, rlVars>>

\* the check at the top of the loop, then the request is sent
PollCheck ==
    /\ phPc = "check"
    /\ \E d \in CheckDelays :
        /\ phElapsed' = phElapsed + d
        /\ IF PollTimedOut(phElapsed', phTimeout)
           THEN /\ phResult' = TimeoutError(phTimeout)
                /\ phPc' = "done"
                /\ UNCHANGED phProbeStart
           ELSE /\ phPc' = "probe"
                /\ phProbeStart' = phElapsed'
                /\ UNCHANGED phResult
    /\ UNCHANGED <<phInterval, phTimeout, phStatus, phSleepArg, sysVars, rlVars>>

\* client.get(url).send().await completes: a 2xx status, another status, or
\* an error (connection refused, or the client's own timeout)
PollProbe ==
    /\ phPc = "probe"
    /\ \E d \in ProbeDurations, status \in {"2xx", "other", "error"} :
        /\ d >= ProbeTimeoutMs => status = "error"
        /\ phElapsed' = phElapsed + d
        /\ phStatus' = status
        /\ IF status = "2xx"
           THEN /\ phResult' = OkRet("")
                /\ phPc' = "done"
                /\ UNCHANGED phSleepArg
           ELSE /\ phSleepArg' = PollSleepFor(phInterval)
                /\ phPc' = "sleep"
                /\ UNCHANGED phResult
    /\ UNCHANGED <<phInterval, phTimeout, phProbeStart, sysVars, rlVars>>

\* tokio::time::sleep(interval).await is over
PollSleep ==
    /\ phPc = "sleep"
    /\ phElapsed' = phElapsed + phSleepArg
    /\ phPc' = "check"
    /\ UNCHANGED <<phInterval, phTimeout, phProbeStart, phStatus, phSleepArg,
                   phResult, sysVars, rlVars>>

NextPoll == PollBuild \/ PollCheck \/ PollProbe \/ PollSleep

SpecPoll == InitPoll /\ [][NextPoll]_vars

\* ------------------------------------------- SidecarManager and its owner
InitMgr == InitWith({InitLog(0)}) /\ ~dev /\ PhIdle /\ RlIdle

\* manager.spawn() returning Ok(()); an Err changes nothing
OwnerSpawn ==
    /\ pc[OwnerFlow] = "idle"
    /\ dropped = "no"
    /\ StoreChild(OwnerFlow)
    /\ UNCHANGED <<appVars, lockVars, logVars, uiVars, pc, swrVars, sdVars,
                   pollVars, outVars, pureVars>>

\* manager.spawn_with_retry() is called
OwnerSpawnWithRetry ==
    /\ pc[OwnerFlow] = "idle"
    /\ dropped = "no"
    /\ pc' = [pc EXCEPT ![OwnerFlow] = "sp_try"]
    /\ UNCHANGED <<appVars, lockVars, childVars, logVars, uiVars, swrVars, sdVars,
                   pollVars, outVars, pureVars>>

OwnerAfterSpawn ==
    /\ pc[OwnerFlow] = "sp_ret"
    /\ SwrConsumed(OwnerFlow)
    /\ pc' = [pc EXCEPT ![OwnerFlow] = "idle"]
    /\ UNCHANGED <<appVars, lockVars, childVars, logVars, uiVars, sdVars,
                   pollVars, outVars, pureVars>>

\* manager.is_running(): child.try_wait() under the child mutex; Ok(None)
\* gives true, and a child that has exited is reaped by the call
is_running ==
    /\ pc[OwnerFlow] = "idle"
    /\ dropped = "no"
    /\ childLock = NoFlow
    /\ \/ /\ slot # NoChild /\ Live(slot)
          /\ result' = [result EXCEPT ![OwnerFlow] = OkRet("true")]
          /\ UNCHANGED child
       \/ /\ slot # NoChild /\ child[slot] \in {"zombie", "reaped"}
          /\ child' = [child EXCEPT ![slot] = "reaped"]
          /\ result' = [result EXCEPT ![OwnerFlow] = OkRet("false")]
       \/ \* the slot is empty, or try_wait() is Err(_)
          /\ result' = [result EXCEPT ![OwnerFlow] = OkRet("false")]
          /\ UNCHANGED child
    /\ UNCHANGED <<appVars, lockVars, slot, takes, spawner, logVars, uiVars, pc,
                   swrVars, sdVars, pollVars, steps, pureVars>>

\* manager.shutdown() is called
OwnerShutdown ==
    /\ pc[OwnerFlow] = "idle"
    /\ dropped = "no"
    /\ pc' = [pc EXCEPT ![OwnerFlow] = "sd_lock"]
    /\ UNCHANGED <<appVars, lockVars, childVars, logVars, uiVars, swrVars, sdVars,
                   pollVars, outVars, pureVars>>

\* the manager goes out of scope: drop() calls self.shutdown()
OwnerDrop ==
    /\ pc[OwnerFlow] = "idle"
    /\ dropped = "no"
    /\ dropped' = "dropping"
    /\ pc' = [pc EXCEPT ![OwnerFlow] = "sd_lock"]
    /\ UNCHANGED <<dev, appSidecar, lockVars, childVars, logVars, uiVars, swrVars,
                   sdVars, pollVars, outVars, pureVars>>

\* shutdown() returned, to the owner or to drop()
OwnerAfterShutdown ==
    /\ pc[OwnerFlow] = "sd_ret"
    /\ ShutdownConsumed(OwnerFlow)
    /\ IF dropped = "dropping"
       THEN /\ dropped' = "dropped"
            /\ pc' = [pc EXCEPT ![OwnerFlow] = "done"]
       ELSE /\ pc' = [pc EXCEPT ![OwnerFlow] = "idle"]
            /\ UNCHANGED dropped
    /\ UNCHANGED <<dev, appSidecar, lockVars, childVars, logVars, uiVars, swrVars,
                   pollVars, outVars, pureVars>>

NextMgr ==
    \/ OwnerSpawn
    \/ OwnerSpawnWithRetry
    \/ SpawnTry(OwnerFlow)
    \/ SpawnSleep(OwnerFlow)
    \/ OwnerAfterSpawn
    \/ OwnerShutdown
    \/ OwnerDrop
    \/ ShutdownTake(OwnerFlow)
    \/ ShutdownTryWait(OwnerFlow)
    \/ ShutdownSleep(OwnerFlow)
    \/ ShutdownWait(OwnerFlow)
    \/ OwnerAfterShutdown
    \/ is_running
    \/ \E g \in Children : ChildExit(g)
    \/ \E g \in Children, stream \in Streams : LogAppend(g, stream)

SpecMgr == InitMgr /\ [][NextMgr]_vars

\* ---------------------------------------------------- read_last_log_lines
\* the bytes a log file can hold: any, UTF-8 or not, whole lines or not
RlBytes == {"a", "\n", "\r", "0xC3", "0xAA"}
RECURSIVE SeqsUpTo(_, _)
SeqsUpTo(S, n) ==
    IF n = 0 THEN {<<>>}
    ELSE LET shorter == SeqsUpTo(S, n - 1)
         IN shorter \cup {Append(q, x) : q \in shorter, x \in S}
NoFile == [exists |-> FALSE, text |-> <<>>]
RlFiles == {NoFile} \cup
           {[exists |-> TRUE, text |-> t] : t \in SeqsUpTo(RlBytes, MaxFileLen)}

\* what there is to read of the file: nothing when it is missing
\* (read_to_string gives Err(NotFound))
FileText(file) == IF file.exists THEN file.text ELSE <<>>
\* the calls remembered: the last CallsKept
Kept(calls) ==
    IF Len(calls) > CallsKept
    THEN SubSeq(calls, Len(calls) - CallsKept + 1, Len(calls)) ELSE calls

InitRead ==
    /\ InitWith({InitLog(0)})
    /\ ~dev
    /\ PhIdle
    /\ rlFile \in RlFiles
    \* the reader threads of a spawn() made before have opened the file, or
    \* no thread is started yet
    /\ rlOpen \in [Streams -> {"no", "open"}]
    /\ (\E st \in Streams : rlOpen[st] = "open") => rlFile.exists
    /\ rlWriting = [st \in Streams |-> <<>>]
    /\ rlBegun = 0
    /\ rlCalls = <<>>

\* read_last_log_lines(n): the file is read, never written
ReadCall ==
    /\ \E n \in 0..MaxReadN :
        rlCalls' = Kept(Append(rlCalls,
            [op |-> "read", n |-> n, file |-> rlFile,
             out |-> read_last_log_lines(FileText(rlFile), n)]))
    /\ UNCHANGED <<rlFile, rlOpen, rlWriting, rlBegun, sysVars, phVars>>

\* a reader thread starts: OpenOptions::new().create(true).append(true)
\* .open(&log_path).ok() creates the file when it is missing, and leaves its
\* content alone; when the open fails the thread has no file to write to
OpenCall ==
    /\ \E st \in Streams, opened \in BOOLEAN :
        /\ rlOpen[st] = "no"
        /\ rlOpen' = [rlOpen EXCEPT ![st] = IF opened THEN "open" ELSE "failed"]
        /\ rlFile' = IF opened THEN [exists |-> TRUE, text |-> FileText(rlFile)]
                     ELSE rlFile
        /\ rlCalls' = Kept(Append(rlCalls,
               [op |-> "open", n |-> 0, file |-> rlFile, out |-> <<>>]))
    /\ UNCHANGED <<rlWriting, rlBegun, sysVars, phVars>>

\* a reader thread makes one write call of its writeln!, to the file it
\* opened: k bytes of the piece are written, all of them or fewer, or the
\* call fails (k = 0) and the rest of the line is dropped
WriteCall ==
    /\ \E st \in Streams :
        LET begun == rlWriting[st] # <<>>
            pieces == IF begun THEN rlWriting[st]
                      ELSE LogLine(st, ChildPrints(st))
        IN /\ rlOpen[st] = "open"
           /\ ~begun => rlBegun < MaxWritten
           /\ rlBegun' = IF begun THEN rlBegun ELSE rlBegun + 1
           /\ \E k \in 0..Len(Head(pieces)) :
                /\ rlFile' = [exists |-> TRUE,
                              text |-> FileText(rlFile) \o SubSeq(Head(pieces), 1, k)]
                /\ rlWriting' = [rlWriting EXCEPT ![st] =
                                    IF k = 0 THEN <<>> ELSE AfterWrite(pieces, k)]
                /\ rlCalls' = Kept(Append(rlCalls,
                       [op |-> "write", n |-> k, file |-> rlFile,
                        out |-> <<SubSeq(Head(pieces), 1, k)>>]))
    /\ UNCHANGED <<rlOpen, sysVars, phVars>>

NextRead == ReadCall \/ OpenCall \/ WriteCall

SpecRead == InitRead /\ [][NextRead]_vars

\* ======================================================================
\* Properties
\* ======================================================================
SpawnPcs == {"sp_try", "sp_sleep", "sp_ret"}
BlockedPcs == {"sd_sleep", "sd_wait", "sp_sleep"}
AllFailed(t) == \A i \in 1..Len(t) : t[i] # "ok"

\* C1: at most one child of the manager is live, and while a child is
\* stored in the slot every child spawned before it has exited and been
\* reaped.
C1_AtMostOneLiveChild ==
    /\ Cardinality(LiveChildren) <= 1
    /\ slot # NoChild => \A g \in Children : g < slot => child[g] = "reaped"

\* C2: no flow holds the AppState.sidecar lock or the child lock while it
\* sleeps (shutdown's poll sleep, the backoff sleep) or blocks in
\* child.wait().
C2_NoLockAcrossBlockingWait ==
    \A f \in Flows : pc[f] \in BlockedPcs => appLock # f /\ childLock # f

\* C3: when shutdown() returns, the slot is empty and the child that was
\* stored at the call has exited, on every path through shutdown().
C3_ShutdownLeavesChildExited ==
    \A f \in Flows :
        pc[f] = "sd_ret" =>
            /\ sdRet[f][1].slot = NoChild
            /\ sdRet[f][1].state \in {"none", "zombie", "reaped"}

\* C4: a shutdown() that finds the slot empty takes and signals nothing,
\* and every child generation that has left the slot was taken out of it
\* and killed by exactly one shutdown() invocation.
C4_EachGenerationOneShutdown ==
    /\ \A f \in Flows :
          pc[f] = "sd_ret" /\ sdRet[f][1].child = NoChild => sdChild[f] = NoChild
    /\ \A g \in Children : takes[g] <= 1
    /\ \A g \in Children : child[g] # "unborn" /\ slot # g => takes[g] = 1

\* C5: a spawn_with_retry() whose spawn() calls all failed has called
\* spawn() exactly max_retries times when it returns, and returns the error
\* carrying max_retries and the message of the last failure; no call makes
\* more than max_retries attempts.
C5_ExactlyMaxRetriesAttempts ==
    \A f \in Flows :
        /\ Len(tries[f]) <= max_retries
        /\ pc[f] = "sp_ret" /\ AllFailed(tries[f]) =>
              /\ Len(tries[f]) = max_retries
              /\ swr[f].kind = "err"
              /\ swr[f].n = max_retries
              /\ swr[f].cause = tries[f][Len(tries[f])]
              /\ swr[f].tag = "Backend failed to start after {} attempts: {}"

C5_Witness ==
    \E f \in Flows : pc[f] = "sp_ret" /\ AllFailed(tries[f]) /\ Len(tries[f]) = 3

\* C6: the k-th backoff wait is 2^(k-1) seconds; there is one wait after
\* every failed attempt that is followed by another attempt, and none after
\* the final failed attempt or after a successful one.
C6_BackoffDoubles ==
    \A f \in Flows :
        /\ \A k \in 1..Len(delays[f]) : delays[f][k] = 2^(k - 1)
        /\ pc[f] \in {"sp_try", "sp_sleep"} =>
              AllFailed(tries[f]) /\ Len(delays[f]) = Len(tries[f])
        /\ pc[f] = "sp_ret" => Len(delays[f]) = Len(tries[f]) - 1

C6_Witness ==
    \E f \in Flows : pc[f] = "sp_ret" /\ delays[f] = <<1, 2>>

\* C7: poll_health returns the timeout error only with more than timeout
\* elapsed; a 2xx probe ends it with success at once; after any other
\* status or an error it returns nothing and sleeps for interval, the same
\* value on every turn.
C7_PollTimeoutAndFixedInterval ==
    /\ phResult.kind = "err" => phResult \in {TimeoutError(phTimeout), ClientError}
    /\ phResult = TimeoutError(phTimeout) => phElapsed > phTimeout
    /\ phResult = ClientError => phStatus = "none" /\ phElapsed = 0
    /\ phStatus = "2xx" => phPc = "done" /\ phResult.kind = "ok"
    /\ phPc = "sleep" =>
          phStatus \in {"other", "error"} /\ phResult = NoRet
    /\ phStatus \in {"other", "error"} => phSleepArg = phInterval
    /\ phStatus = "none" => phSleepArg = 0

C7_Witness ==
    /\ phPc = "done" /\ phResult = TimeoutError(phTimeout) /\ phStatus = "other"
    /\ phTimeout = HealthTimeoutMs /\ phElapsed = HealthTimeoutMs + HealthIntervalMs

\* C8: once more than the overall timeout has elapsed, poll_health returns
\* the timeout error, also when the probe in flight at that moment then
\* completes with a 2xx status.
C8_OverallTimeoutTakesPrecedence ==
    phPc = "done" /\ phElapsed > phTimeout => phResult = TimeoutError(phTimeout)

\* C9 as claimed: a restart_backend running while no process has been
\* tracked so far (no manager, or a manager whose slot has stayed empty)
\* attempts no spawn and ends with the no-manager error.
C9_NoSpawnWithoutTrackedProcess ==
    (\A g \in Children : child[g] = "unborn") =>
        \A f \in Restarts :
            /\ pc[f] \notin SpawnPcs
            /\ pc[f] = "done" => result[f] = NoManagerError

\* C9 as amended: with no SidecarManager in AppState, restart_backend
\* attempts no spawn and returns the no-manager error; with a manager
\* stored it never returns that error, its child slot empty or not.
C9_NoManagerNoSpawn ==
    \A f \in Restarts :
        /\ ~appSidecar =>
              /\ pc[f] \in {"idle", "r_lock1", "r_lock2", "done"}
              /\ pc[f] = "done" => result[f] = NoManagerError
        /\ appSidecar => result[f] # NoManagerError
        /\ appSidecar /\ pc[f] = "done" => result[f].kind # "none"

C9_Witness ==
    \E f \in Restarts : ~appSidecar /\ pc[f] = "done" /\ result[f] = NoManagerError

\* C10: a production boot whose spawn succeeded and whose health poll timed
\* out renders one diagnostic, with the timeout message and the last
\* min(20, L) of the L lines the log file held when it was read, in their
\* order, and performs neither navigate nor show-and-focus. (The lines the
\* file holds are what stands between its line feeds, whether or not a
\* write left a character cut.)
C10_BootTimeoutShowsLogTail ==
    ~dev /\ pc[BootFlow] = "done" /\ result[BootFlow].kind = "err"
         /\ result[BootFlow].tag = TimeoutError(HealthTimeoutMs).tag =>
        /\ ui[BootFlow] \in {<<>>, <<"eval", "show">>}
        /\ windowAlive => ui[BootFlow] = <<"eval", "show">>
        /\ Len(diag) = Len(ui[BootFlow]) \div 2
        /\ \A i \in 1..Len(diag) :
              LET d == diag[i]
                  held == Lines(bootRead.from)
                  L == Len(held)
                  k == Min(LogTail, L)
              IN /\ d.by = BootFlow
                 /\ d.message = TimeoutError(HealthTimeoutMs)
                 /\ d.log_lines = SubSeq(held, L - k + 1, L)

\* the positions of steps[f] where op was called, or was what a call returned
At(f, op) == {i \in 1..Len(steps[f]) : steps[f][i].op = op}
\* in steps[f] every b comes directly after an a
DirectlyAfter(f, a, b) == \A i \in At(f, b) : i > 1 /\ steps[f][i - 1].op = a

\* C11: in one restart_backend invocation spawn_with_retry() is called only
\* once shutdown() has returned, poll_health only once spawn_with_retry()
\* has returned Ok, and with interval 250 and timeout 15000, navigate only
\* once poll_health has returned Ok; a navigate is followed by the return of
\* the success string. Children are spawned, and the poll runs, only at
\* these calls.
C11_RestartStepOrder ==
    \A f \in Restarts :
        /\ DirectlyAfter(f, "shutdown", "shutdown returned")
        /\ DirectlyAfter(f, "shutdown returned", "spawn_with_retry")
        /\ DirectlyAfter(f, "spawn_with_retry Ok", "poll_health")
        /\ DirectlyAfter(f, "poll_health Ok", "navigate")
        /\ \A op \in {"spawn_with_retry Ok", "spawn_with_retry Err"} :
              DirectlyAfter(f, "spawn_with_retry", op)
        /\ \A op \in {"poll_health Ok", "poll_health Err"} :
              DirectlyAfter(f, "poll_health", op)
        /\ \A i \in At(f, "poll_health") : steps[f][i] = PollCall
        /\ \A i \in At(f, "navigate") :
              /\ i < Len(steps[f]) /\ steps[f][i + 1].op = "return Ok"
              /\ result[f] = RestartedOk
        /\ Cardinality(At(f, "navigate")) = Len(ui[f])
        /\ pc[f] \in SpawnPcs \/ tries[f] # <<>> =>
              steps[f][Len(steps[f])].op = "spawn_with_retry"
        /\ (\E g \in Children : spawner[g] = f) => At(f, "spawn_with_retry") # {}
        /\ pc[f] \in {"poll", "probe", "sleep", "poll_ret"} =>
              steps[f][Len(steps[f])] = PollCall

C11_Witness ==
    \E f \in Restarts :
        /\ pc[f] = "done" /\ result[f] = RestartedOk /\ ui[f] = <<"navigate">>
        /\ At(f, "navigate") # {}

\* C12: a restart_backend that has failed with the retry-exhausted or the
\* health-timeout error has returned that one error, the slot of the manager
\* is empty, and no child spawned by that invocation is live.
C12_FailedRestartRetainsNothing ==
    \A f \in Restarts :
        /\ pc[f] = "done" /\ result[f].kind = "err" =>
              \/ result[f] \in {RetryError(max_retries, e) : e \in SpawnErrors}
              \/ result[f] \in {TimeoutError(HealthTimeoutMs), ClientError, NoManagerError}
        /\ \/ result[f] \in {RetryError(max_retries, e) : e \in SpawnErrors}
           \/ result[f] = TimeoutError(HealthTimeoutMs) =>
            /\ pc[f] = "done"
            /\ slot = NoChild
            /\ \A g \in Children : spawner[g] = f => ~Live(g)

\* C13: in development mode the boot flow spawns no child and stores no
\* SidecarManager; it calls poll_health and nothing before it; on success it
\* shows and focuses the window without navigating, and on timeout the
\* diagnostic carries the two fixed lines, whatever the log file holds.
C13_DevBootOnlyPolls ==
    dev =>
        /\ \A g \in Children : child[g] = "unborn"
        /\ slot = NoChild
        /\ ~appSidecar
        /\ pc[BootFlow] \notin SpawnPcs
        /\ At(BootFlow, "spawn_with_retry") = {}
        /\ pc[BootFlow] # "b_setup" => steps[BootFlow][1] = PollCall
        /\ pc[BootFlow] = "done" /\ result[BootFlow].kind = "ok" =>
              /\ ui[BootFlow] \in {<<>>, <<"show", "set_focus">>}
              /\ windowAlive => ui[BootFlow] = <<"show", "set_focus">>
              /\ view = "initial"
              /\ diag = <<>>
        /\ pc[BootFlow] = "done" /\ result[BootFlow].kind = "err" =>
              /\ ui[BootFlow] \in {<<>>, <<"eval", "show">>}
              /\ windowAlive => Len(diag) = 1
              /\ result[BootFlow] \in {TimeoutError(HealthTimeoutMs), ClientError}
              /\ \A i \in 1..Len(diag) :
                    /\ diag[i].log_lines = DevLines
                    /\ diag[i].message = result[BootFlow]

C13_Witness ==
    /\ dev /\ pc[BootFlow] = "done"
    /\ result[BootFlow] = TimeoutError(HealthTimeoutMs)
    /\ Len(diag) = 1 /\ diag[1].log_lines = DevLines
    /\ Len(Lines(log)) = LogTail

\* C14: whatever bytes the log file holds, read_last_log_lines(n) returns
\* the last min(n, L) of the L lines of the file (what stands between its
\* line feeds), oldest first; nothing when the file is missing or empty; it
\* leaves the file as it was, and a read that repeats the read before it
\* returns the same lines.
C14_ReadLastReturnsTail ==
    \A i \in 1..Len(rlCalls) :
        LET c == rlCalls[i]
            lines == Lines(IF c.file.exists THEN c.file.text ELSE <<>>)
            L == Len(lines)
            k == Min(c.n, L)
            after == IF i < Len(rlCalls) THEN rlCalls[i + 1].file ELSE rlFile
        IN c.op = "read" =>
            /\ Len(c.out) = k
            /\ \A j \in 1..k : c.out[j] = lines[L - k + j]
            /\ ~c.file.exists \/ L = 0 => c.out = <<>>
            /\ after = c.file
            /\ i > 1 /\ rlCalls[i - 1].op = "read" /\ rlCalls[i - 1].n = c.n =>
                  c.out = rlCalls[i - 1].out

\* C15: once a SidecarManager has been dropped, no child spawned through it
\* is still running, whatever calls of spawn, spawn_with_retry and shutdown
\* came before the drop.
C15_DropLeavesNoOrphan ==
    dropped = "dropped" => \A g \in Children : child[g] # "running"

\* a spawn_with_retry() call of flow f has not returned yet
InRetry(f) == pc[f] \in {"sp_try", "sp_sleep"}

\* C16: while a spawn_with_retry() call of the boot flow or of a
\* restart_backend invocation has not returned, nothing is done to the main
\* window: no show or set_focus, no navigate, no eval of the diagnostic.
C16_NoWindowOpDuringRetries ==
    [][(\E f \in Flows : InRetry(f)) => UNCHANGED <<ui, view, diag>>]_vars

\* C17: a production boot whose spawn_with_retry() failed has ended: the
\* diagnostic was rendered once, with the retry-exhausted error and the last
\* min(20, L) of the L log lines; poll_health was never called, and the
\* window was neither navigated nor shown-and-focused.
C17_BootSpawnFailedShowsError ==
    ~dev /\ At(BootFlow, "spawn_with_retry Err") # {} =>
        /\ pc[BootFlow] = "done"
        /\ At(BootFlow, "poll_health") = {}
        /\ result[BootFlow] \in {RetryError(max_retries, e) : e \in SpawnErrors}
        /\ ui[BootFlow] = <<"eval", "show">>
        /\ Len(diag) = 1
        /\ LET d == diag[1]
               held == Lines(bootRead.from)
               L == Len(held)
               k == Min(LogTail, L)
           IN /\ d.by = BootFlow
              /\ d.message = result[BootFlow]
              /\ d.log_lines = SubSeq(held, L - k + 1, L)
        /\ \A g \in Children : child[g] = "unborn"

C17_Witness ==
    /\ ~dev /\ pc[BootFlow] = "done"
    /\ result[BootFlow] \in {RetryError(max_retries, e) : e \in SpawnErrors}
    /\ Len(diag) = 1
    /\ Len(Lines(bootRead.from)) = LogTail + 1
    /\ Len(diag[1].log_lines) = LogTail
    /\ diag[1].log_lines[1] = <<"2">>

\* a flow is about to lock AppState.sidecar
WantsAppLock(f) ==
    \/ pc[f] \in {"r_lock1", "r_lock2", "c_lock"}
    \/ f = BootFlow /\ pc[f] = "poll_ret" /\ pollRes[f].kind = "err" /\ ~dev
\* a flow is about to lock SidecarManager.child
WantsChildLock(f) == pc[f] \in {"sd_lock", "sp_try"}
Started(f) == pc[f] \notin {"idle", "done"}

\* C18: a flow that requests a lock holds neither that lock nor, for the
\* AppState lock, the child lock (the child lock is only taken inside the
\* AppState lock or by the boot flow before the manager is shared); in the
\* end every flow that was started has completed, so each has obtained
\* every lock it waited for.
C18_DeadlockFree ==
    /\ [](\A f \in Flows :
            /\ WantsAppLock(f) => appLock # f /\ childLock # f
            /\ WantsChildLock(f) => childLock # f
            /\ childLock = f => appLock = f)
    /\ <>[](\A f \in Flows : ~Started(f))

C18_Witness ==
    \E f \in Restarts, h \in Restarts \cup {CloseFlow} :
        /\ f # h
        /\ WantsAppLock(f) /\ appLock = h /\ childLock = h
        /\ pc[h] = "sd_wait"

\* C19: once the shutdown() called by the window-close handler has
\* returned, no child of the manager is running.
C19_NoChildRunningAfterClose ==
    At(CloseFlow, "shutdown returned") # {} =>
        \A g \in Children : child[g] # "running"

\* C20: in production, once setup is over AppState holds the
\* SidecarManager, whether spawn_with_retry() succeeded or failed; it holds
\* it whenever a diagnostic has been rendered, so a restart_backend started
\* from the diagnostic page finds it and never returns the no-manager error.
C20_ManagerStoredBeforeDiagnostic ==
    ~dev =>
        /\ SetupDone => appSidecar
        /\ view = "diagnostic" \/ diag # <<>> => appSidecar
        /\ \A f \in Restarts :
              /\ Started(f) => appSidecar
              /\ result[f] # NoManagerError
              /\ At(f, "spawn_with_retry") # {} \/ pc[f] \in {"idle", "r_lock1", "sd_lock",
                     "sd_poll", "sd_sleep", "sd_wait", "sd_ret", "r_lock2"}

C20_Witness ==
    /\ ~dev
    /\ result[BootFlow] \in {RetryError(max_retries, e) : e \in SpawnErrors}
    /\ \E f \in Restarts : pc[f] = "done" /\ result[f] = RestartedOk
====
